---- MODULE Spec2Model ----
(***************************************************************************)
(* Moviever: the tiered data loader (session cache -> CSV snapshot -> TMDB *)
(* fetch with backoff), the per-page response cache, the refresh action    *)
(* and the data preparation, as a state machine.                           *)
(***************************************************************************)
EXTENDS Integers, Sequences, FiniteSets, TLC

(***************************************************************************)
(* Bounds of the model and program constants.                              *)
(***************************************************************************)
\* config.DEFAULT_FETCH_PAGES is 500 in the source; the page budget of the
\* model is scaled down to keep the state space finite and small.
DEFAULT_FETCH_PAGES == 3
\* records on a full page of the catalogue (20 at TMDB)
PER_PAGE == 2
\* how many 429 answers the remote gives during one get_data call
MaxRateLimited == 2
\* backoff = 1.0 ; backoff_max = 10.0
\* rate-limited answers of one call of the collector
MaxSleeps == 6
BACKOFF_START == 1
BACKOFF_MAX == 10

\* config.py: the defaults of the sidebar thresholds (the rating in tenths)
\* and the range of years
DEFAULT_MIN_RATING == 75
DEFAULT_MAX_POPULARITY == 20
DEFAULT_MIN_VOTE_COUNT == 50
MIN_YEAR == 1950
MAX_YEAR == 2026

\* rows of a table given to filter_df
MaxRows == 2

Pages == 1..DEFAULT_FETCH_PAGES

(***************************************************************************)
(* Values.  None is the empty tuple and a present value x is <<x>>, so an  *)
(* optional value always compares.                                         *)
(***************************************************************************)
None == <<>>
Some(x) == <<x>>

\* numbers that may be NaN (pandas float columns)
NaN == [nan |-> TRUE, v |-> 0]
Num(n) == [nan |-> FALSE, v |-> n]

\* release dates: an ISO string, an unparseable string, a missing value,
\* a parsed Timestamp, or NaT
DateString(y, m, d) == [kind |-> "str", y |-> y, m |-> m, d |-> d]
BadString == [kind |-> "bad", y |-> 0, m |-> 0, d |-> 0]
NullDate == [kind |-> "null", y |-> 0, m |-> 0, d |-> 0]
Timestamp(y, m, d) == [kind |-> "ts", y |-> y, m |-> m, d |-> d]
NaT == [kind |-> "NaT", y |-> 0, m |-> 0, d |-> 0]

\* pd.to_datetime(x, errors="coerce")
to_datetime(x) ==
    CASE x.kind = "str" -> Timestamp(x.y, x.m, x.d)
      [] x.kind = "ts" -> x
      [] OTHER -> NaT

\* Series.dt.year
dt_year(t) == IF t.kind = "ts" THEN Num(t.y) ELSE NaN

\* a genre_ids / genres cell: a Python list, the text of a list literal as
\* a CSV file holds it ("[28, 35]"), or NaN
List(s) == [kind |-> "list", items |-> s]
ListText(s) == [kind |-> "text", items |-> s]
NaNCell == [kind |-> "nan", items |-> <<>>]

(***************************************************************************)
(* Lookup tables (fetch_genre_map, fetch_tmdb_lang_codes).                 *)
(***************************************************************************)
\* genre ids the genre list of TMDB knows
GenreIds == {28, 35}
genre_map == [g \in GenreIds |-> IF g = 28 THEN "Action" ELSE "Comedy"]
\* the empty map fetch_genre_map returns when its request fails
empty_genre_map == [g \in {} |-> "Unknown"]

\* the index (iso_639_1) of the language table and its english_name column
LangCodes == {"en", "fr"}
lang_map == [c \in LangCodes |-> IF c = "en" THEN "English" ELSE "French"]

\* what requests.get of a lookup comes back with: the list asked for, an
\* error status with the JSON of an error, or a network error (status 0)
LookupOk == [status |-> 200]
LookupResponses == {LookupOk, [status |-> 401], [status |-> 0]}

(***************************************************************************)
(* gems_score = vote_average * log10(vote_count + 1) / (popularity + 1),   *)
(* NaN replaced by 0.  vote_average is held in tenths; the score is the    *)
(* exact fraction num/den (in units), den > 0.                             *)
(***************************************************************************)
RECURSIVE log10(_)
\* np.log10 on the powers of ten the model uses (exact there)
log10(n) == IF n < 10 THEN 0 ELSE 1 + log10(n \div 10)

Fraction(n, d) == [num |-> n, den |-> d]

\* (mutant) no fillna(0): the NaN of the arithmetic stays, as the fraction 0/0
gems_score_NoFillna(r) ==
    IF r.vote_average.nan \/ r.vote_count.nan \/ r.popularity.nan
    THEN Fraction(0, 0)
    ELSE Fraction(r.vote_average.v * log10(r.vote_count.v + 1),
                  10 * (r.popularity.v + 1))

gems_score(r) ==
    IF r.vote_average.nan \/ r.vote_count.nan \/ r.popularity.nan
    THEN Fraction(0, 1)   \* the NaN of the arithmetic, then fillna(0)
    ELSE Fraction(r.vote_average.v * log10(r.vote_count.v + 1),
                  10 * (r.popularity.v + 1))

(***************************************************************************)
(* prepare_df                                                              *)
(***************************************************************************)
RECURSIVE JoinComma(_)
\* ", ".join(x): the joined string is modelled by the tuple of its parts
JoinComma(s) == IF s = <<>> THEN <<>> ELSE <<Head(s)>> \o JoinComma(Tail(s))

\* (mutant) ids the map does not know are left out
map_genre_ids_SkipUnknown(gmap, genre_ids) ==
    IF genre_ids.kind # "list"
    THEN List(<<>>)
    ELSE List([i \in 1..Len(SelectSeq(genre_ids.items,
                                      LAMBDA g : g \in DOMAIN gmap)) |->
                 gmap[SelectSeq(genre_ids.items,
                                LAMBDA g : g \in DOMAIN gmap)[i]]])

\* map_genre_ids(genre_ids)
map_genre_ids(gmap, genre_ids) ==
    IF genre_ids.kind # "list"          \* not isinstance(genre_ids, list)
    THEN List(<<>>)
    ELSE List([i \in 1..Len(genre_ids.items) |->
                 IF genre_ids.items[i] \in DOMAIN gmap
                 THEN gmap[genre_ids.items[i]] ELSE "Unknown"])

\* lambda x: ", ".join(x) if x else "Unknown"
genres_str(genres) ==
    IF genres.items = <<>> THEN <<"Unknown">> ELSE JoinComma(genres.items)

\* lang_map.loc[x, "english_name"] raises KeyError when x is not in the index
LangKeyError(lmap, row) == row.original_language \notin DOMAIN lmap

\* one row of prepare_df of app.py, which leaves original_language alone
PrepareRowLegacy(gmap, r) ==
    LET rd == to_datetime(r.release_date)
        g  == map_genre_ids(gmap, r.genre_ids)
    IN  [release_date |-> rd,
         year |-> dt_year(rd),
         gems_score |-> gems_score(r),
         genres |-> g,
         genres_str |-> genres_str(g)] @@ r

\* one row of prepare_df of utils/data_processing.py, for a row whose
\* language code is in the index
PrepareRow(gmap, lmap, r) ==
    [original_language |-> lmap[r.original_language]]
        @@ PrepareRowLegacy(gmap, r)

\* the outcome of a call: a value, or an exception
Ok(x) == [raised |-> FALSE, value |-> x]
Raised == [raised |-> TRUE, value |-> <<>>]

prepare_df(gmap, lmap, df) ==
    IF \E i \in 1..Len(df) : LangKeyError(lmap, df[i])
    THEN Raised
    ELSE Ok([i \in 1..Len(df) |-> PrepareRow(gmap, lmap, df[i])])

\* fetch_genre_map: the mapping, or {} when the request or
\* raise_for_status() raises
fetch_genre_map(resp) ==
    IF resp.status = 200 THEN Ok(genre_map) ELSE Ok(empty_genre_map)

\* fetch_tmdb_lang_codes: requests.get raises on a network error, and
\* pd.DataFrame(response.json()) raises on the JSON of an error (a dict of
\* scalars); there is no try/except
fetch_tmdb_lang_codes(resp) ==
    IF resp.status = 200 THEN Ok(lang_map) ELSE Raised

\* prepare_df(df) with the lookups it makes
prepare_df_call(genre_resp, lang_resp, df) ==
    LET gm == fetch_genre_map(genre_resp)
        lm == fetch_tmdb_lang_codes(lang_resp)
    IN  IF gm.raised \/ lm.raised THEN Raised
        ELSE prepare_df(gm.value, lm.value, df)

(***************************************************************************)
(* The remote catalogue and fetch_tmdb_page.                               *)
(***************************************************************************)
\* the i-th record of page p of the catalogue
Movie(p, i) ==
    [id |-> <<p, i>>,
     release_date |-> IF i = 1 THEN DateString(2020, p, i) ELSE BadString,
     vote_average |-> Num(75),
     vote_count |-> Num(99),
     popularity |-> Num(4),
     genre_ids |-> IF i = 1 THEN List(<<28, 35>>) ELSE List(<<12>>),
     original_language |-> IF i = 1 THEN "en" ELSE "fr",
     adult |-> FALSE]

FullPage(p) == [i \in 1..PER_PAGE |-> Movie(p, i)]

\* the values of "total_pages" a response may carry: the key missing (None), a
\* total below max_pages, and one above it
ReportedTotals ==
    {None} \cup {Some(n) : n \in {0, 1, 2, DEFAULT_FETCH_PAGES + 1}}

\* r.json() of a 200 response, and the dict returned on a 429
Body(results, total) ==
    [rate_limited |-> FALSE, results |-> results, total_pages |-> total]
RATE_LIMITED == [rate_limited |-> TRUE, results |-> <<>>, total_pages |-> None]
\* the JSON of an error response: neither "results" nor "total_pages"
ErrorBody == Body(<<>>, None)
\* a body that is not JSON (empty, HTML): r.json() raises on it
NotJson == [not_json |-> TRUE]

\* what requests.get may come back with for page p: a response with a status
\* and a body, or a network error / timeout (status 0).  The collectors read
\* "total_pages" only while total_pages_known is None, which is from the
\* answer to page 1; the answers to the later pages are taken without the key.
Responses(p) ==
    {[status |-> s, body |-> ErrorBody] : s \in {0, 429, 404, 500}}
    \cup {[status |-> 200, body |-> Body(res, t)] :
            res \in {<<>>, FullPage(p)},
            t \in IF p = 1 THEN ReportedTotals ELSE {None}}

\* (mutant) no check of status 429: raise_for_status() raises on it
fetch_tmdb_page_No429(resp) ==
    IF resp.status = 0 THEN Raised
    ELSE IF resp.status >= 400 THEN Raised
    ELSE Ok(resp.body)

\* (mutant) no raise_for_status(): the JSON of an error response is returned
fetch_tmdb_page_NoRaise(resp) ==
    IF resp.status = 0 THEN Raised
    ELSE IF resp.status = 429 THEN Ok(RATE_LIMITED)
    ELSE Ok(resp.body)

\* fetch_tmdb_page, from the response on: the value returned, or an exception
fetch_tmdb_page(resp) ==
    IF resp.status = 0 THEN Raised                  \* requests.get raises
    ELSE IF resp.status = 429 THEN Ok(RATE_LIMITED)
    ELSE IF resp.status >= 400 THEN Raised          \* raise_for_status()
    ELSE IF resp.body = NotJson THEN Raised         \* r.json()
    ELSE Ok(resp.body)

\* what requests.get may come back with at all: also the statuses outside
\* 200, 4xx and 5xx that it hands on (no content, a redirect it cannot
\* follow, not modified), with a body that is JSON or not
AnyResponses(p) ==
    Responses(p)
    \cup {[status |-> s, body |-> b] :
            s \in {200, 204, 300, 304, 401, 403, 503},
            b \in {NotJson, ErrorBody, Body(FullPage(p), Some(1))}}

(***************************************************************************)
(* The CSV snapshot: save_data_to_csv, load_data_from_csv.                 *)
(***************************************************************************)
\* the text DataFrame.to_csv writes for a cell of column c
ToText(c, v) ==
    CASE c = "release_date" ->
            IF v.kind = "ts" THEN DateString(v.y, v.m, v.d)
            ELSE IF v.kind \in {"NaT", "null"} THEN NullDate ELSE v
      [] c \in {"genre_ids", "genres"} ->
            IF v.kind = "list" THEN ListText(v.items) ELSE v
      [] OTHER -> v

\* df.to_csv(config.CSV_DATA_FILE, index=False): the header and the rows
to_csv(df) ==
    [columns |-> IF df = <<>> THEN {} ELSE DOMAIN df[1],
     rows |-> [i \in 1..Len(df) |->
                 [c \in DOMAIN df[i] |-> ToText(c, df[i][c])]]]

\* parse_genre_ids / parse_genres: ast.literal_eval of the text of a list
\* (mutant) the text of a list is not parsed
parse_list_NoParse(x) ==
    CASE x.kind = "nan" -> List(<<>>)
      [] OTHER -> x

parse_list(x) ==
    CASE x.kind = "nan" -> List(<<>>)
      [] x.kind = "list" -> x
      [] x.kind = "bad" -> List(<<>>)      \* except: return []
      [] OTHER -> List(x.items)

\* one row of load_data_from_csv, cols being the columns of the file
LoadRow(gmap, cols, r) ==
    LET r1 == [release_date |-> to_datetime(r.release_date)] @@ r
        r2 == IF "genre_ids" \in cols
              THEN [genre_ids |-> parse_list(r1.genre_ids)] @@ r1 ELSE r1
        r3 == IF "gems_score" \notin cols
              THEN [gems_score |-> gems_score(r2)] @@ r2 ELSE r2
        r4 == IF "year" \notin cols
              THEN [year |-> dt_year(r3.release_date)] @@ r3 ELSE r3
        r5 == IF "genres" \in cols
              THEN [genres |-> parse_list(r4.genres)] @@ r4 ELSE r4
    IN  IF "genres" \notin cols \/ "genres_str" \notin cols
        THEN LET g == map_genre_ids(gmap, r5.genre_ids)
             IN  [genres |-> g, genres_str |-> genres_str(g)] @@ r5
        ELSE r5

\* (mutant) no try/except and no test of the header: whatever rows the file
\* has are taken
load_data_from_csv_NoExcept(gmap, file) ==
    IF file = None
    THEN None
    ELSE Some([i \in 1..Len(file[1].rows) |->
                 LoadRow(gmap, file[1].columns, file[1].rows[i])])

\* load_data_from_csv: None when there is no file and when reading it raises
\* (pd.read_csv fails, or there is no release_date column), else the table
load_data_from_csv(gmap, file) ==
    IF file = None
    THEN None
    ELSE IF "release_date" \notin file[1].columns
    THEN None                       \* except Exception: st.warning, return None
    ELSE Some([i \in 1..Len(file[1].rows) |->
                 LoadRow(gmap, file[1].columns, file[1].rows[i])])

(***************************************************************************)
(* State.                                                                  *)
(***************************************************************************)
VARIABLES
    \* st.session_state: the data keys
    tmdb_prepared_data,   \* None (key absent) or Some(table)
    tmdb_show_progress,   \* None (key absent) or Some(boolean)
    csv_loaded_notified,  \* the key is present
    GLOBAL_FILTERS,       \* None (key absent) or Some(the filter store)
    \* config.CSV_DATA_FILE: None (no file) or Some(header and rows)
    csv_file,
    \* st.cache_data of fetch_tmdb_page: page -> None or Some(returned dict)
    page_cache,
    \* the script run: where it is, and whether the Refresh button was the
    \* widget that triggered it; button_shown: the last run drew the sidebar
    pc, clicked, button_shown,
    \* locals of the collection loop of get_data
    page, backoff, total_pages_known, all_movies,
    \* the remote: 429 answers it still gives during this call
    rl_left,
    \* what the current (or last) get_data call did
    tier,             \* "none", "session", "disk", "remote"
    outcome,          \* "none", "running", "table", "absent", "raised"
    snapshot_read,    \* load_data_from_csv was called
    start,            \* [session, snapshot] as the call found them
    net_requests,     \* pages requested over the network, in order
    accepted,         \* page -> None or Some(the answer the loop went on with)
    failed,           \* a request of the call ended in a hard failure
    wrote,            \* [session, snapshot]: what the call stored
    \* history across calls
    warm_start,       \* an earlier call of this session returned a table and
                      \* no refresh happened since (at the start of the call)
    warm,             \* the same, now
    after_refresh,    \* "no"; the call follows a refresh: "deleted" / "kept"
    pre_refresh,      \* None or Some([session, snapshot]) as a refresh found them
    resume_from,      \* None, or Some(K): the last run failed hard on page K
                      \* with pages 1..K-1 cached; no ttl ran out and no
                      \* refresh happened since
    \* prepare_df applied to a table, and to its own result
    prep_input, prep_once, prep_twice,
    \* what the requests of fetch_genre_map and of fetch_tmdb_lang_codes
    \* come back with during that
    prep_genre_resp, prep_lang_resp,
    \* a call of _fetch_tmdb_pages_cached: where it is and its locals
    col_pc,           \* "loop", "done"
    col_page, col_backoff, col_total, col_movies,
    col_answers,      \* what fetch_tmdb_page answered, call by call
    col_sleeps,       \* the time.sleep calls: [page, secs], in order
    col_result,       \* None, or Some(the table returned / the exception)
    col_prepared,     \* None, or Some(prepare_df of the table returned)
    \* one call of fetch_tmdb_page that reaches the network
    fetch_resp,       \* None, or Some([page, resp]): what requests.get gives
    fetch_out,        \* None, or Some(what the call returned or raised)
    \* one call of filter_df
    flt_args,         \* None, or Some([df, filters]) as the caller passed them
    flt_df,           \* the caller's table, now
    flt_filters,      \* the caller's filter dict, now (None: no call)
    flt_out,          \* None, or Some(the table returned)
    \* a prepared table saved to a snapshot file and loaded from it
    snap_df,          \* the prepared table (<<>>: none)
    snap_drop,        \* derived columns the file lacks (an older snapshot)
    snap_bad,         \* None, or Some(column): the list cell of the first row
                      \* of the file in that column is not a Python literal
    snap_gmap,        \* what fetch_genre_map returns while the file is loaded
    snap_file,        \* None, or Some(header and rows)
    snap_loaded       \* None, or Some([value |-> what the load returned])

prep_vars == <<prep_input, prep_once, prep_twice, prep_genre_resp,
               prep_lang_resp>>

main_vars == <<tmdb_prepared_data, tmdb_show_progress, csv_loaded_notified,
          GLOBAL_FILTERS, csv_file, page_cache, pc, clicked, button_shown,
          page, backoff, total_pages_known, all_movies, rl_left,
          tier, outcome, snapshot_read, start, net_requests, accepted, failed,
          wrote, warm_start, warm, after_refresh, pre_refresh, resume_from>>

col_vars == <<col_pc, col_page, col_backoff, col_total, col_movies,
              col_answers, col_sleeps, col_result, col_prepared>>

\* the variables of the functions run on their own
fetch_vars == <<fetch_resp, fetch_out>>
flt_vars == <<flt_args, flt_df, flt_filters, flt_out>>
snap_vars == <<snap_df, snap_drop, snap_bad, snap_gmap, snap_file, snap_loaded>>
pure_vars == <<col_vars, fetch_vars, flt_vars, snap_vars>>

vars == <<main_vars, prep_vars, pure_vars>>

session_vars == <<tmdb_prepared_data, tmdb_show_progress, csv_loaded_notified>>
loop_vars == <<page, backoff, total_pages_known, all_movies>>

Min(a, b) == IF a <= b THEN a ELSE b

\* the snapshot a collection that stopped after page n leaves behind, written
\* by this loader (language names) or by the loader of app.py (language codes)
RECURSIVE FirstPages(_)
FirstPages(n) == IF n = 0 THEN <<>> ELSE FirstPages(n - 1) \o FullPage(n)

SnapshotOf(n) ==
    to_csv(prepare_df(genre_map, lang_map, FirstPages(n)).value)
LegacySnapshotOf(n) ==
    to_csv([i \in 1..Len(FirstPages(n)) |->
              PrepareRowLegacy(genre_map, FirstPages(n)[i])])

\* a file at the path of the snapshot that cannot be read as a table: its
\* header is gone, whatever else it holds
UnreadableFile == [columns |-> {}, rows |-> SnapshotOf(1).rows]

NoPages == [p \in Pages |-> None]

\* a new session on a server that has fetched nothing yet
MainStart ==
    /\ tmdb_prepared_data = None
    /\ tmdb_show_progress = None
    /\ csv_loaded_notified = FALSE
    /\ GLOBAL_FILTERS = None
    /\ page_cache = NoPages
    /\ pc = "idle"
    /\ clicked = FALSE
    /\ button_shown = FALSE
    /\ page = 1
    /\ backoff = BACKOFF_START
    /\ total_pages_known = None
    /\ all_movies = <<>>
    /\ rl_left = MaxRateLimited
    /\ tier = "none"
    /\ outcome = "none"
    /\ snapshot_read = FALSE
    /\ start = [session |-> None, snapshot |-> None]
    /\ net_requests = <<>>
    /\ accepted = NoPages
    /\ failed = FALSE
    /\ wrote = [session |-> FALSE, snapshot |-> FALSE]
    /\ warm_start = FALSE
    /\ warm = FALSE
    /\ after_refresh = "no"
    /\ pre_refresh = None
    /\ resume_from = None

MainInit ==
    /\ csv_file \in {None, Some(SnapshotOf(1)), Some(LegacySnapshotOf(1))}
    /\ MainStart

\* no call of _fetch_tmdb_pages_cached is under way
ColIdle ==
    /\ col_pc = "done"
    /\ col_page = 1
    /\ col_backoff = BACKOFF_START
    /\ col_total = None
    /\ col_movies = <<>>
    /\ col_answers = <<>>
    /\ col_sleeps = <<>>
    /\ col_result = None
    /\ col_prepared = None

\* no call of fetch_tmdb_page on its own
FetchIdle ==
    /\ fetch_resp = None
    /\ fetch_out = None

\* no call of filter_df on its own
FltIdle ==
    /\ flt_args = None
    /\ flt_df = <<>>
    /\ flt_filters = None
    /\ flt_out = None

\* no snapshot round trip on its own
SnapIdle ==
    /\ snap_df = <<>>
    /\ snap_drop = {}
    /\ snap_bad = None
    /\ snap_gmap = <<>>
    /\ snap_file = None
    /\ snap_loaded = None

PureIdle == ColIdle /\ FetchIdle /\ FltIdle /\ SnapIdle

PrepIdle ==
    /\ prep_input = <<>>
    /\ prep_once = None
    /\ prep_twice = None
    /\ prep_genre_resp = LookupOk
    /\ prep_lang_resp = LookupOk

Init ==
    /\ MainInit
    /\ PrepIdle
    /\ PureIdle

(***************************************************************************)
(* get_data.                                                               *)
(***************************************************************************)
\* config.MAX_TMDB_PAGES, 500 like DEFAULT_FETCH_PAGES
MAX_TMDB_PAGES == DEFAULT_FETCH_PAGES

\* max_pages of the loop: the branch taken by show_progress
max_pages ==
    IF tmdb_show_progress = Some(TRUE) THEN DEFAULT_FETCH_PAGES ELSE MAX_TMDB_PAGES

\* data.get("total_pages", max_pages)
get_total_pages(data, default) ==
    IF data.total_pages = None THEN default ELSE data.total_pages[1]

\* get_data returns (or raises); its locals are gone
Return(out) ==
    /\ outcome' = out
    /\ pc' = "returned"
    /\ warm' = (warm \/ out = "table")

PrepareOutcome(df) ==
    IF prepare_df(genre_map, lang_map, df).raised THEN "raised" ELSE "table"

\* First: the session state
SessionHit ==
    /\ tier' = "session"
    /\ snapshot_read' = FALSE
    /\ wrote' = [session |-> FALSE, snapshot |-> FALSE]
    /\ UNCHANGED <<session_vars, csv_file, loop_vars>>
    /\ Return(PrepareOutcome(tmdb_prepared_data[1]))

\* Second: the CSV file
DiskHit(csv_data) ==
    /\ tier' = "disk"
    /\ snapshot_read' = TRUE
    /\ tmdb_prepared_data' = Some(csv_data)
    /\ tmdb_show_progress' = Some(FALSE)
    /\ csv_loaded_notified' = TRUE
    /\ wrote' = [session |-> TRUE, snapshot |-> FALSE]
    /\ UNCHANGED <<csv_file, loop_vars>>
    /\ Return(PrepareOutcome(csv_data))

\* Third: TMDB; the loop starts at page 1
Miss ==
    /\ tier' = "remote"
    /\ snapshot_read' = TRUE
    /\ tmdb_show_progress' =
          IF tmdb_show_progress = None THEN Some(TRUE) ELSE tmdb_show_progress
    /\ page' = 1
    /\ backoff' = BACKOFF_START
    /\ total_pages_known' = None
    /\ all_movies' = <<>>
    /\ wrote' = [session |-> FALSE, snapshot |-> FALSE]
    /\ outcome' = "running"
    /\ pc' = "collect"
    /\ UNCHANGED <<tmdb_prepared_data, csv_loaded_notified, csv_file, warm>>

\* (mutant) the CSV file is looked at before the session state
GetDataHead_DiskFirst ==
    LET csv_data == load_data_from_csv(genre_map, csv_file)
    IN  IF csv_data # None /\ Len(csv_data[1]) > 0
        THEN DiskHit(csv_data[1])
        ELSE IF tmdb_prepared_data # None /\ Len(tmdb_prepared_data[1]) > 0
        THEN SessionHit
        ELSE Miss

\* (mutant) the CSV file is not looked at
GetDataHead_NoDisk ==
    IF tmdb_prepared_data # None /\ Len(tmdb_prepared_data[1]) > 0
    THEN SessionHit
    ELSE Miss

\* the head of get_data: the three tiers in order
GetDataHead ==
    IF tmdb_prepared_data # None /\ Len(tmdb_prepared_data[1]) > 0
    THEN SessionHit
    ELSE LET csv_data == load_data_from_csv(genre_map, csv_file)
         IN  IF csv_data # None /\ Len(csv_data[1]) > 0
             THEN DiskHit(csv_data[1])
             ELSE Miss

\* a run of a page script: df = get_data() comes first.  click: the run was
\* triggered by the Refresh button of the sidebar the last run drew.
RunScript(click) ==
    /\ pc \in {"idle", "rerun"}
    /\ click => (pc = "idle" /\ button_shown)
    /\ clicked' = click
    /\ warm_start' = warm
    /\ after_refresh' = IF pc = "rerun" THEN after_refresh ELSE "no"
    /\ pre_refresh' = IF pc = "rerun" THEN pre_refresh ELSE None
    /\ rl_left' = MaxRateLimited
    /\ start' = [session |-> tmdb_prepared_data, snapshot |-> csv_file]
    /\ net_requests' = <<>>
    /\ accepted' = NoPages
    /\ failed' = FALSE
    /\ button_shown' = FALSE
    /\ UNCHANGED <<page_cache, resume_from, GLOBAL_FILTERS, prep_vars,
                   pure_vars>>
    /\ GetDataHead

\* (mutant) the reported total is taken as it is
first_total_pages_NoMin(data, maxp) == get_total_pages(data, maxp)

\* min(data.get("total_pages", max_pages), max_pages)
first_total_pages(data, maxp) == Min(get_total_pages(data, maxp), maxp)

\* (mutant) no "if not movies: break"
next_page_wanted_IgnoresEmpty(movies, pg, known, maxp) ==
    pg < known /\ pg < maxp

\* the loop goes on to page pg + 1: the page had records ("if not movies:
\* break"), pg < total_pages_known ("if page >= total_pages_known: break")
\* and the range is not used up
next_page_wanted(movies, pg, known, maxp) ==
    movies # <<>> /\ pg < known /\ pg < maxp

\* (mutant) the empty check is missing
nothing_fetched_Never(movies) == FALSE

\* if not all_movies: nothing was collected
nothing_fetched(movies) == movies = <<>>

\* (mutant) the table is stored in the session only when it was saved
stores_session_WhenSaved(save_ok) == save_ok

\* st.session_state[session_key] = df_prepared runs whatever
\* save_data_to_csv returned
stores_session(save_ok) == TRUE

\* the end of the loop: the empty check, prepare_df, save, the session state
EndLoop(movies, save_ok) ==
    LET prep == prepare_df(genre_map, lang_map, movies)
    IN  IF nothing_fetched(movies) \/ prep.raised
        THEN /\ UNCHANGED <<session_vars, csv_file, wrote>>
             /\ Return("absent")
        ELSE /\ csv_file' = IF save_ok THEN Some(to_csv(prep.value)) ELSE csv_file
             /\ tmdb_prepared_data' = IF stores_session(save_ok)
                                      THEN Some(prep.value)
                                      ELSE tmdb_prepared_data
             /\ tmdb_show_progress' = Some(FALSE)
             /\ UNCHANGED csv_loaded_notified
             /\ wrote' = [session |-> stores_session(save_ok),
                          snapshot |-> save_ok]
             /\ Return("table")

\* (mutant) the doubling has no cap
next_backoff_NoCap(b) == b * 2

\* backoff = min(backoff * 2, backoff_max)
next_backoff(b) == Min(b * 2, BACKOFF_MAX)

\* (mutant) the page is put in front of what was collected
extend_InFront(movies_so_far, movies) == movies \o movies_so_far

\* all_movies.extend(movies)
extend(movies_so_far, movies) == movies_so_far \o movies

\* the loop body, from the value (or exception) of fetch_tmdb_page(page) on
LoopBody(fetched, save_ok) ==
    IF fetched.raised
    THEN \* except Exception: st.error, return None
         /\ UNCHANGED <<loop_vars, session_vars, csv_file, accepted, wrote>>
         /\ Return("absent")
    ELSE IF fetched.value.rate_limited
    THEN \* time.sleep(backoff); backoff = min(backoff * 2, backoff_max)
         /\ backoff' = next_backoff(backoff)
         /\ UNCHANGED <<page, total_pages_known, all_movies, session_vars,
                        csv_file, accepted, wrote, outcome, pc, warm>>
    ELSE LET data == fetched.value
             known == IF total_pages_known = None
                      THEN first_total_pages(data, max_pages)
                      ELSE total_pages_known[1]
             movies == data.results
             collected == extend(all_movies, movies)
         IN  /\ backoff' = BACKOFF_START
             /\ total_pages_known' = Some(known)
             /\ all_movies' = collected
             /\ accepted' = [accepted EXCEPT ![page] = Some(data)]
             /\ IF next_page_wanted(movies, page, known, max_pages)
                THEN /\ page' = page + 1
                     /\ UNCHANGED <<session_vars, csv_file, wrote, outcome,
                                    pc, warm>>
                ELSE /\ page' = page
                     /\ EndLoop(collected, save_ok)

\* (mutant) nothing is found in the cache
cache_lookup_Miss(cache, p) == None

\* st.cache_data: the stored return value of fetch_tmdb_page(p), if any
cache_lookup(cache, p) == cache[p]

\* (mutant) return values are not stored
cache_store_Never(cache, p, fetched) == cache

\* st.cache_data stores the value a call returns; an exception is not stored
cache_store(cache, p, fetched) ==
    IF fetched.raised THEN cache
    ELSE [cache EXCEPT ![p] = Some(fetched.value)]

\* fetch_tmdb_page(page) answered by st.cache_data
FetchCached(save_ok) ==
    /\ pc = "collect"
    /\ cache_lookup(page_cache, page) # None
    /\ UNCHANGED <<page_cache, net_requests, rl_left, failed>>
    /\ UNCHANGED <<clicked, button_shown, tier, snapshot_read, start,
                   warm_start, after_refresh, pre_refresh, resume_from,
                   GLOBAL_FILTERS, prep_vars, pure_vars>>
    /\ LoopBody(Ok(cache_lookup(page_cache, page)[1]), save_ok)

\* fetch_tmdb_page(page) run: a network request, its value cached
FetchNetwork(resp, save_ok) ==
    /\ pc = "collect"
    /\ cache_lookup(page_cache, page) = None
    /\ resp \in Responses(page)
    /\ resp.status = 429 => rl_left > 0
    /\ rl_left' = IF resp.status = 429 THEN rl_left - 1 ELSE rl_left
    /\ net_requests' = Append(net_requests, page)
    /\ page_cache' = cache_store(page_cache, page, fetch_tmdb_page(resp))
    /\ failed' = (resp.status \notin {200, 429})
    /\ UNCHANGED <<clicked, button_shown, tier, snapshot_read, start,
                   warm_start, after_refresh, pre_refresh, resume_from,
                   GLOBAL_FILTERS, prep_vars, pure_vars>>
    /\ LoopBody(fetch_tmdb_page(resp), save_ok)

(***************************************************************************)
(* render_sidebar_filters: the GLOBAL_FILTERS store and the widgets.        *)
(***************************************************************************)
Max(a, b) == IF a >= b THEN a ELSE b

\* the store a session starts with
default_filters ==
    [min_rating |-> DEFAULT_MIN_RATING,
     max_popularity |-> DEFAULT_MAX_POPULARITY,
     min_vote_count |-> DEFAULT_MIN_VOTE_COUNT,
     genre |-> "All", adult |-> FALSE, include_missing_dates |-> FALSE,
     min_year |-> None, max_year |-> None, original_language |-> "All"]

\* what get_data returned: df_prepared of the collection, or prepare_df of
\* the table of the session
returned_df ==
    IF tier = "remote" THEN tmdb_prepared_data[1]
    ELSE prepare_df(genre_map, lang_map, tmdb_prepared_data[1]).value

\* df["year"].min() / .max(), or the config bound when no row has a year
min_year_val(df) ==
    IF \A i \in DOMAIN df : df[i].year.nan THEN MIN_YEAR
    ELSE CHOOSE y \in {df[i].year.v : i \in {j \in DOMAIN df : ~df[j].year.nan}} :
            \A i \in DOMAIN df : df[i].year.nan \/ y <= df[i].year.v
max_year_val(df) ==
    IF \A i \in DOMAIN df : df[i].year.nan THEN MAX_YEAR
    ELSE CHOOSE y \in {df[i].year.v : i \in {j \in DOMAIN df : ~df[j].year.nan}} :
            \A i \in DOMAIN df : df[i].year.nan \/ y >= df[i].year.v

\* max(config.MIN_YEAR, min(y, config.MAX_YEAR))
clamp_year(y) == Max(MIN_YEAR, Min(y, MAX_YEAR))

\* the options of the genre and of the language selectbox
genres_list(df) ==
    {"All"} \cup (UNION {{df[i].genres_str[k] : k \in DOMAIN df[i].genres_str} :
                            i \in DOMAIN df}
                     \ {"Unknown"})
language_list(df) ==
    {"All"} \cup {df[i].original_language : i \in DOMAIN df}

\* the changes a user makes to one widget of the sidebar
AllFilterChanges ==
    {[key |-> "genre", option |-> "Action", number |-> 0],
     [key |-> "original_language", option |-> "English", number |-> 0],
     [key |-> "min_rating", option |-> "", number |-> 80]}

\* of these, the ones the widgets drawn for df offer
FilterChanges(df) ==
    {c \in AllFilterChanges :
        /\ c.key = "genre" => c.option \in genres_list(df)
        /\ c.key = "original_language" => c.option \in language_list(df)}

\* what the widget with this key returns: the value the user gave it in this
\* run, else the value of the store it was drawn with
slider(change, key, value) ==
    IF change # None /\ change[1].key = key THEN change[1].number ELSE value
selectbox(change, key, value) ==
    IF change # None /\ change[1].key = key THEN change[1].option ELSE value
\* no run of the model changes a checkbox
checkbox(change, key, value) == value

\* render_sidebar_filters(df) up to the Refresh button: the store after it
render_sidebar_filters(store, df, change) ==
    LET g == IF store = None THEN default_filters ELSE store[1]
        lo == clamp_year(IF g.min_year = None THEN min_year_val(df)
                         ELSE g.min_year[1])
        hi == clamp_year(IF g.max_year = None THEN max_year_val(df)
                         ELSE g.max_year[1])
    IN  [min_rating |-> slider(change, "min_rating", g.min_rating),
         max_popularity |-> slider(change, "max_popularity", g.max_popularity),
         min_vote_count |-> slider(change, "min_vote_count", g.min_vote_count),
         genre |-> selectbox(change, "genre",
                          IF g.genre \in genres_list(df) THEN g.genre ELSE "All"),
         original_language |->
             selectbox(change, "original_language",
                    IF g.original_language \in language_list(df)
                    THEN g.original_language ELSE "All"),
         min_year |-> Some(slider(change, "min_year", Min(lo, hi))),
         max_year |-> Some(slider(change, "max_year", hi)),
         adult |-> checkbox(change, "adult", g.adult),
         include_missing_dates |->
             checkbox(change, "include_missing_dates", g.include_missing_dates)]

(***************************************************************************)
(* The page script after get_data, the Refresh button of                   *)
(* render_sidebar_filters, and the environment.                            *)
(***************************************************************************)
\* df = get_data(); if df is None: st.stop(); ...; render_sidebar_filters(df)
\* An exception of get_data ends the run as well.  The sidebar is drawn only
\* with a table, and the Refresh branch runs when the button was clicked.
RenderPage(change) ==
    /\ pc = "returned"
    \* a widget was changed only in a sidebar drawn before, and it is the
    \* change, not the button or st.rerun(), that triggered this run
    /\ change # None =>
          /\ outcome = "table" /\ ~clicked /\ after_refresh = "no"
          /\ GLOBAL_FILTERS # None
          /\ change[1] \in FilterChanges(returned_df)
    /\ GLOBAL_FILTERS' =
          IF outcome = "table"
          THEN Some(render_sidebar_filters(GLOBAL_FILTERS, returned_df, change))
          ELSE GLOBAL_FILTERS
    /\ pc' = IF outcome = "table" /\ clicked THEN "sidebar" ELSE "idle"
    /\ button_shown' = (outcome = "table" /\ ~clicked)
    \* the call is over: its locals and its record are dropped
    /\ page' = 1
    /\ backoff' = BACKOFF_START
    /\ total_pages_known' = None
    /\ all_movies' = <<>>
    /\ rl_left' = MaxRateLimited
    /\ tier' = "none"
    /\ outcome' = "none"
    /\ snapshot_read' = FALSE
    /\ start' = [session |-> None, snapshot |-> None]
    /\ net_requests' = <<>>
    /\ accepted' = NoPages
    /\ failed' = FALSE
    /\ wrote' = [session |-> FALSE, snapshot |-> FALSE]
    /\ warm_start' = FALSE
    /\ after_refresh' = "no"
    /\ pre_refresh' = None
    \* a run that failed on page K leaves the answers to pages 1..K-1 cached
    /\ resume_from' =
          IF failed /\ \A p \in 1..(page - 1) : page_cache[p] # None
          THEN Some(page) ELSE None
    /\ UNCHANGED <<session_vars, csv_file, page_cache, clicked, warm,
                   prep_vars, pure_vars>>

\* delete_csv_cache: os.remove, which may fail and leave the file
delete_csv_cache(file, remove_ok) == IF remove_ok THEN None ELSE file

\* (mutant) the table is not among the keys the refresh deletes
refresh_keys_NoTable ==
    {"tmdb_show_progress", "tmdb_data_loaded", "csv_loaded_notified"}

\* (mutant) the filter store is among the keys the refresh deletes
refresh_keys_WithFilters ==
    {"tmdb_prepared_data", "tmdb_show_progress", "tmdb_data_loaded",
     "csv_loaded_notified", "GLOBAL_FILTERS"}

\* the keys of st.session_state the refresh deletes
refresh_keys ==
    {"tmdb_prepared_data", "tmdb_show_progress", "tmdb_data_loaded",
     "csv_loaded_notified"}

RefreshData(remove_ok) ==
    /\ pc = "sidebar"
    /\ pre_refresh' =
          Some([session |-> tmdb_prepared_data, snapshot |-> csv_file,
                filters |-> GLOBAL_FILTERS])
    /\ page_cache' = NoPages                       \* st.cache_data.clear()
    /\ csv_file' = delete_csv_cache(csv_file, remove_ok)
    /\ after_refresh' = IF csv_file' = None THEN "deleted" ELSE "kept"
    /\ tmdb_prepared_data' =
          IF "tmdb_prepared_data" \in refresh_keys THEN None ELSE tmdb_prepared_data
    /\ tmdb_show_progress' =
          IF "tmdb_show_progress" \in refresh_keys THEN None ELSE tmdb_show_progress
    /\ csv_loaded_notified' =
          IF "csv_loaded_notified" \in refresh_keys THEN FALSE ELSE csv_loaded_notified
    /\ GLOBAL_FILTERS' =
          IF "GLOBAL_FILTERS" \in refresh_keys THEN None ELSE GLOBAL_FILTERS
    /\ pc' = "rerun"                               \* st.rerun()
    /\ clicked' = FALSE
    /\ button_shown' = FALSE
    /\ warm' = FALSE
    /\ resume_from' = None
    /\ UNCHANGED <<loop_vars, rl_left, tier, outcome, snapshot_read, start,
                   net_requests, accepted, failed, wrote, warm_start,
                   prep_vars, pure_vars>>

\* the ttl of st.cache_data runs out for the cached answer of page p
Expire(p) ==
    /\ page_cache[p] # None
    /\ page_cache' = [page_cache EXCEPT ![p] = None]
    /\ resume_from' = None
    /\ UNCHANGED <<session_vars, csv_file, pc, clicked, button_shown, loop_vars,
                   rl_left, tier, outcome, snapshot_read, start, net_requests,
                   accepted, failed, wrote, warm_start, warm, after_refresh,
                   pre_refresh, GLOBAL_FILTERS, prep_vars, pure_vars>>

\* the browser session ends and a new one starts: st.session_state is empty
NewSession ==
    /\ pc = "idle"
    /\ tmdb_prepared_data # None \/ tmdb_show_progress # None
    /\ tmdb_prepared_data' = None
    /\ tmdb_show_progress' = None
    /\ csv_loaded_notified' = FALSE
    /\ GLOBAL_FILTERS' = None
    /\ button_shown' = FALSE
    /\ warm' = FALSE
    /\ UNCHANGED <<csv_file, page_cache, pc, clicked, loop_vars, rl_left, tier,
                   outcome, snapshot_read, start, net_requests, accepted, failed,
                   wrote, warm_start, after_refresh, pre_refresh, resume_from,
                   prep_vars, pure_vars>>

Next ==
    \/ \E click \in BOOLEAN : RunScript(click)
    \/ \E save_ok \in BOOLEAN : FetchCached(save_ok)
    \/ \E resp \in UNION {Responses(p) : p \in Pages}, save_ok \in BOOLEAN :
          FetchNetwork(resp, save_ok)
    \/ \E change \in {None} \cup {Some(c) : c \in AllFilterChanges} :
          RenderPage(change)
    \/ \E remove_ok \in BOOLEAN : RefreshData(remove_ok)
    \/ \E p \in Pages : Expire(p)
    \/ NewSession

Spec == Init /\ [][Next]_vars

\* The same application where the file at the snapshot path may be
\* unreadable and may be removed from outside the application.
LoadInit ==
    /\ csv_file \in {None, Some(UnreadableFile), Some(LegacySnapshotOf(1))}
    /\ MainStart
    /\ PrepIdle
    /\ PureIdle

SnapshotRemoved ==
    /\ pc = "idle"
    /\ csv_file # None
    /\ csv_file' = None
    /\ UNCHANGED <<session_vars, page_cache, pc, clicked, button_shown,
                   loop_vars, rl_left, tier, outcome, snapshot_read, start,
                   net_requests, accepted, failed, wrote, warm_start, warm,
                   after_refresh, pre_refresh, resume_from, GLOBAL_FILTERS,
                   prep_vars, pure_vars>>

LoadNext == Next \/ SnapshotRemoved

LoadSpec == LoadInit /\ [][LoadNext]_vars

\* The loop of get_data runs on: a call of fetch_tmdb_page returns.  While the
\* loop waits on a cached rate-limited answer it sleeps at least a second per
\* turn, so the clock reaches the ttl of that answer.
ExpireWhileWaiting ==
    /\ pc = "collect"
    /\ page_cache[page] # None
    /\ page_cache[page][1].rate_limited
    /\ Expire(page)

Fairness ==
    /\ WF_vars(\E save_ok \in BOOLEAN : FetchCached(save_ok))
    /\ WF_vars(\E resp \in UNION {Responses(p) : p \in Pages},
                  save_ok \in BOOLEAN : FetchNetwork(resp, save_ok))
    /\ WF_vars(ExpireWhileWaiting)

LiveSpec == Spec /\ Fairness

(***************************************************************************)
(* prepare_df as a function: applied to a table, then to its own result.   *)
(***************************************************************************)
\* the values a raw record may carry
InputRows ==
    [id : {<<1, 1>>},
     release_date : {DateString(2020, 5, 17), BadString, NullDate},
     vote_average : {Num(75), NaN},
     vote_count : {Num(99), Num(0), NaN},
     popularity : {Num(4), NaN},
     genre_ids : {List(<<>>), List(<<28>>), List(<<12>>), List(<<35, 12>>),
                  NaNCell},
     original_language : {"en", "fr", "xx"},
     adult : {FALSE}]

PrepInit ==
    /\ MainInit
    /\ csv_file = None
    /\ prep_input \in {<<r>> : r \in InputRows}
                     \cup {<<r, Movie(1, 1)>> : r \in InputRows}
    /\ prep_once = None
    /\ prep_twice = None
    /\ prep_genre_resp = LookupOk
    /\ prep_lang_resp = LookupOk
    /\ PureIdle

\* df1 = prepare_df(df)
PrepareOnce ==
    /\ prep_once = None
    /\ prep_once' = Some(prepare_df_call(prep_genre_resp, prep_lang_resp,
                                         prep_input))
    /\ UNCHANGED <<main_vars, prep_input, prep_twice, prep_genre_resp,
                   prep_lang_resp, pure_vars>>

\* df2 = prepare_df(df1), as get_data does with the table it cached
PrepareTwice ==
    /\ prep_once # None
    /\ ~prep_once[1].raised
    /\ prep_twice = None
    /\ prep_twice' = Some(prepare_df_call(prep_genre_resp, prep_lang_resp,
                                          prep_once[1].value))
    /\ UNCHANGED <<main_vars, prep_input, prep_once, prep_genre_resp,
                   prep_lang_resp, pure_vars>>

PrepNext == PrepareOnce \/ PrepareTwice

PrepSpec == PrepInit /\ [][PrepNext]_vars

\* prepare_df while the lookups may fail
LookupInit ==
    /\ MainInit
    /\ csv_file = None
    /\ prep_input \in {<<r>> : r \in InputRows}
                     \cup {<<r, Movie(1, 1)>> : r \in InputRows}
    /\ prep_once = None
    /\ prep_twice = None
    /\ prep_genre_resp \in LookupResponses
    /\ prep_lang_resp \in LookupResponses
    /\ PureIdle

LookupSpec == LookupInit /\ [][PrepNext]_vars

(***************************************************************************)
(* _fetch_tmdb_pages_cached(max_pages=config.MAX_TMDB_PAGES) as a          *)
(* function of what fetch_tmdb_page answers, and prepare_df of its result  *)
(* as in the branch of get_data without progress display.                  *)
(***************************************************************************)
CollectInit ==
    /\ MainInit
    /\ csv_file = None
    /\ PrepIdle
    /\ col_pc = "loop"
    /\ col_page = 1
    /\ col_backoff = BACKOFF_START
    /\ col_total = None
    /\ col_movies = <<>>
    /\ col_answers = <<>>
    /\ col_sleeps = <<>>
    /\ col_result = None
    /\ col_prepared = None
    /\ FetchIdle
    /\ FltIdle
    /\ SnapIdle

\* one turn of the while loop: data = fetch_tmdb_page(page) and what follows
CollectorStep(resp) ==
    /\ col_pc = "loop"
    /\ resp \in Responses(col_page)
    /\ resp.status = 429 => Len(col_sleeps) < MaxSleeps
    /\ col_answers' = Append(col_answers,
                             [page |-> col_page, answer |-> fetch_tmdb_page(resp)])
    /\ UNCHANGED <<main_vars, prep_vars, col_prepared, fetch_vars, flt_vars,
                   snap_vars>>
    /\ LET fetched == fetch_tmdb_page(resp)
       IN  IF fetched.raised
           THEN \* the exception leaves the function
                /\ col_result' = Some(Raised)
                /\ col_pc' = "done"
                /\ UNCHANGED <<col_page, col_backoff, col_total, col_movies,
                               col_sleeps>>
           ELSE IF fetched.value.rate_limited
           THEN \* time.sleep(backoff); backoff = min(backoff * 2, backoff_max)
                /\ col_sleeps' = Append(col_sleeps,
                                        [page |-> col_page, secs |-> col_backoff])
                /\ col_backoff' = next_backoff(col_backoff)
                /\ UNCHANGED <<col_pc, col_page, col_total, col_movies,
                               col_result>>
           ELSE LET data == fetched.value
                    known == IF col_total = None
                             THEN first_total_pages(data, MAX_TMDB_PAGES)
                             ELSE col_total[1]
                    movies == data.results
                    collected == extend(col_movies, movies)
                IN  /\ col_backoff' = BACKOFF_START
                    /\ col_total' = Some(known)
                    /\ col_movies' = collected
                    /\ UNCHANGED col_sleeps
                    /\ IF next_page_wanted(movies, col_page, known,
                                           MAX_TMDB_PAGES)
                       THEN /\ col_page' = col_page + 1
                            /\ UNCHANGED <<col_pc, col_result>>
                       ELSE \* if not all_movies: raise RuntimeError
                            /\ col_page' = col_page
                            /\ col_pc' = "done"
                            /\ col_result' =
                                  Some(IF nothing_fetched(collected)
                                       THEN Raised ELSE Ok(collected))

\* df_prepared = prepare_df(df_raw)
CollectorPrepare ==
    /\ col_pc = "done"
    /\ col_result # None
    /\ ~col_result[1].raised
    /\ col_prepared = None
    /\ col_prepared' = Some(prepare_df(genre_map, lang_map, col_result[1].value))
    /\ UNCHANGED <<main_vars, prep_vars, col_pc, col_page, col_backoff,
                   col_total, col_movies, col_answers, col_sleeps, col_result,
                   fetch_vars, flt_vars, snap_vars>>

CollectNext ==
    \/ \E resp \in UNION {Responses(p) : p \in Pages} : CollectorStep(resp)
    \/ CollectorPrepare

CollectSpec == CollectInit /\ [][CollectNext]_vars

(***************************************************************************)
(* fetch_tmdb_page as a function of the response of requests.get.          *)
(***************************************************************************)
FetchInit ==
    /\ MainInit
    /\ csv_file = None
    /\ PrepIdle
    /\ ColIdle
    /\ FltIdle
    /\ SnapIdle
    /\ fetch_resp \in {Some([page |-> p, resp |-> r]) :
                          p \in Pages, r \in UNION {AnyResponses(q) : q \in Pages}}
    /\ fetch_resp[1].resp \in AnyResponses(fetch_resp[1].page)
    /\ fetch_out = None

\* fetch_tmdb_page(page), not answered by the cache
FetchOnce ==
    /\ fetch_resp # None
    /\ fetch_out = None
    /\ fetch_out' = Some(fetch_tmdb_page(fetch_resp[1].resp))
    /\ UNCHANGED <<main_vars, prep_vars, col_vars, fetch_resp, flt_vars,
                   snap_vars>>

FetchSpec == FetchInit /\ [][FetchOnce]_vars

(***************************************************************************)
(* filter_df as a function of a prepared table and a filter dict.          *)
(* Ratings are in tenths.  The genres column is always there (prepare_df   *)
(* and load_data_from_csv both make it), so the genres_str fallback is     *)
(* not taken.                                                              *)
(***************************************************************************)
\* the columns of a prepared row that filter_df reads
FilterRow(id, adult, genres, language, rating, popularity, votes, date) ==
    [id |-> id, adult |-> adult, genres |-> genres,
     original_language |-> language, vote_average |-> Num(rating),
     popularity |-> Num(popularity), vote_count |-> Num(votes),
     release_date |-> date, year |-> dt_year(date)]

\* release dates of the rows: two years and a missing date
FilterDates == {Timestamp(2020, 5, 17), Timestamp(2022, 5, 17), NaT}

\* the rows a table is made of, before they get their id
FilterRows ==
    UNION {{FilterRow(0, FALSE, List(<<"Comedy", "Action">>), "English",
                      80, 10, 500, d),
            FilterRow(0, TRUE, List(<<"Action">>), "English", 80, 10, 500, d),
            FilterRow(0, FALSE, NaNCell, "English", 50, 10, 500, d),
            FilterRow(0, FALSE, List(<<"Comedy">>), "French", 80, 90, 20, d)} :
               d \in FilterDates}

\* tables of 1..MaxRows rows; the id of a row is its position
FilterTables ==
    UNION {{[i \in 1..n |-> [t[i] EXCEPT !.id = i]] :
               t \in [1..n -> FilterRows]} : n \in 1..MaxRows}

\* the values of st.session_state["GLOBAL_FILTERS"]: the years are None
\* until render_sidebar_filters has set them
FilterDicts ==
    {[adult |-> a, genre |-> g, original_language |-> l,
      min_rating |-> th[1], max_popularity |-> th[2],
      min_vote_count |-> th[3], min_year |-> y[1], max_year |-> y[2],
      include_missing_dates |-> inc] :
        a \in BOOLEAN, g \in {"All", "Action"}, l \in {"All", "English"},
        th \in {<<0, 100, 0>>, <<DEFAULT_MIN_RATING, 100, 0>>,
                <<0, DEFAULT_MAX_POPULARITY, 0>>,
                <<0, 100, DEFAULT_MIN_VOTE_COUNT>>},
        y \in {<<None, None>>, <<Some(MIN_YEAR), Some(MAX_YEAR)>>,
               <<Some(2021), Some(MAX_YEAR)>>},
        inc \in BOOLEAN}

\* comparisons of a float column with a number: False on NaN
ge(x, n) == ~x.nan /\ x.v >= n
le(x, n) == ~x.nan /\ x.v <= n

\* Series.notna() on release_date
notna(t) == t.kind = "ts"

\* filters["genre"] in x if isinstance(x, list) else False
genre_in(genre, x) ==
    IF x.kind = "list" THEN \E i \in DOMAIN x.items : x.items[i] = genre
    ELSE FALSE

\* every row a table can hold; a boolean Series (df[column] >= value, ...)
\* is the set of the rows where it is True
AllFilterRows == {[r EXCEPT !.id = i] : r \in FilterRows, i \in 1..MaxRows}

\* (mutant) the rows kept come out in reverse order
boolean_index_Reversed(df, mask) ==
    LET kept == SelectSeq(df, LAMBDA r : r \in mask)
    IN  [k \in 1..Len(kept) |-> kept[Len(kept) + 1 - k]]

\* df[mask]: a new table of the rows where the boolean Series holds, in
\* their order
boolean_index(df, mask) == SelectSeq(df, LAMBDA r : r \in mask)

filter_df(df, filters) ==
    LET d0 == df                                            \* df.copy()
        d1 == IF ~filters.adult
              THEN boolean_index(d0, {r \in AllFilterRows : r.adult = FALSE})
              ELSE d0
        d2 == IF filters.genre # "All"
              THEN boolean_index(d1,
                       {r \in AllFilterRows : genre_in(filters.genre, r.genres)})
              ELSE d1
        d3 == IF filters.original_language # "All"
              THEN boolean_index(d2,
                       {r \in AllFilterRows : r.original_language =
                                          filters.original_language})
              ELSE d2
        d4 == boolean_index(d3,
                  {r \in AllFilterRows : ge(r.vote_average, filters.min_rating)})
        d5 == boolean_index(d4,
                  {r \in AllFilterRows : le(r.popularity, filters.max_popularity)})
        d6 == boolean_index(d5,
                  {r \in AllFilterRows : ge(r.vote_count, filters.min_vote_count)})
        d7 == IF filters.min_year # None
              THEN boolean_index(d6,
                       {r \in AllFilterRows : ge(r.year, filters.min_year[1])})
              ELSE d6
        d8 == IF filters.max_year # None
              THEN boolean_index(d7,
                       {r \in AllFilterRows : le(r.year, filters.max_year[1])})
              ELSE d7
        d9 == IF ~filters.include_missing_dates
              THEN boolean_index(d8, {r \in AllFilterRows : notna(r.release_date)})
              ELSE d8
    IN  d9

FilterInit ==
    /\ MainInit
    /\ csv_file = None
    /\ PrepIdle
    /\ ColIdle
    /\ FetchIdle
    /\ SnapIdle
    /\ flt_df \in FilterTables
    /\ flt_filters \in FilterDicts
    /\ flt_args = Some([df |-> flt_df, filters |-> flt_filters])
    /\ flt_out = None

\* filter_df(df, filters): it works on a copy of df and only reads filters
FilterCall ==
    /\ flt_args # None
    /\ flt_out = None
    /\ flt_out' = Some(filter_df(flt_df, flt_filters))
    /\ UNCHANGED <<main_vars, prep_vars, col_vars, fetch_vars, flt_args,
                   flt_df, flt_filters, snap_vars>>

FilterSpec == FilterInit /\ [][FilterCall]_vars

(***************************************************************************)
(* save_data_to_csv and load_data_from_csv as functions: a prepared table  *)
(* is written, the file may be one of an older version (derived columns    *)
(* missing) or hold a list cell that cannot be parsed, and is loaded.      *)
(***************************************************************************)
\* the columns prepare_df adds that load_data_from_csv can regenerate
DerivedColumns == {"gems_score", "year", "genres", "genres_str"}

\* raw records with a language the language table knows and a genre_ids list
SnapshotInputRows ==
    {r \in InputRows : /\ r.original_language \in LangCodes
                       /\ r.genre_ids.kind = "list"
                       /\ r.vote_count # Num(0)}

\* prepared tables of one and of two rows
SnapshotTables ==
    {prepare_df(genre_map, lang_map, t).value :
        t \in {<<r>> : r \in SnapshotInputRows}
              \cup {<<r, Movie(1, 2)>> : r \in SnapshotInputRows}}

\* a file without the columns cols, as an older version wrote it
without_columns(file, cols) ==
    [columns |-> file.columns \ cols,
     rows |-> [i \in 1..Len(file.rows) |->
                 [c \in (DOMAIN file.rows[i]) \ cols |-> file.rows[i][c]]]]

\* the text of a list cell that ast.literal_eval cannot parse
BadListText == [kind |-> "bad", items |-> <<>>]

\* a file whose first row holds such a text in column bad (None: no column)
with_bad_cell(file, bad) ==
    IF bad = None \/ file.rows = <<>> THEN file
    ELSE [file EXCEPT !.rows[1][bad[1]] = BadListText]

SnapshotInit ==
    /\ MainInit
    /\ csv_file = None
    /\ PrepIdle
    /\ ColIdle
    /\ FetchIdle
    /\ FltIdle
    /\ snap_df \in SnapshotTables
    /\ snap_drop \in SUBSET DerivedColumns
    /\ snap_bad \in {None, Some("genre_ids")}
                    \cup (IF "genres" \in snap_drop THEN {} ELSE {Some("genres")})
    /\ snap_gmap \in {genre_map, empty_genre_map}
    /\ snap_file = None
    /\ snap_loaded = None

\* save_data_to_csv(df): the file as it is found when it is loaded
SaveSnapshot ==
    /\ snap_file = None
    /\ snap_file' = Some(with_bad_cell(without_columns(to_csv(snap_df),
                                                       snap_drop), snap_bad))
    /\ UNCHANGED <<main_vars, prep_vars, col_vars, fetch_vars, flt_vars,
                   snap_df, snap_drop, snap_bad, snap_gmap, snap_loaded>>

\* load_data_from_csv()
LoadSnapshot ==
    /\ snap_file # None
    /\ snap_loaded = None
    /\ snap_loaded' = Some([value |-> load_data_from_csv(snap_gmap, snap_file)])
    /\ UNCHANGED <<main_vars, prep_vars, col_vars, fetch_vars, flt_vars,
                   snap_df, snap_drop, snap_bad, snap_gmap, snap_file>>

SnapshotNext == SaveSnapshot \/ LoadSnapshot

SnapshotSpec == SnapshotInit /\ [][SnapshotNext]_vars

(***************************************************************************)
(* Claims.                                                                 *)
(***************************************************************************)
\* a table is held (st.session_state) / the file has at least one row
HasTable(opt) == opt # None /\ Len(opt[1]) > 0
HasRows(file) == file # None /\ Len(file[1].rows) > 0

\* the elements of a sequence
Range(f) == {f[i] : i \in DOMAIN f}

\* C1: in every get_data call the tiers are consulted in the order session
\* state, snapshot, remote: a call answered by the session table reads no
\* snapshot and issues no fetch, a call answered by the snapshot issues no
\* fetch, and a fetch is issued only when the call found neither a session
\* table nor a snapshot with rows.
C1_TierOrder ==
    /\ net_requests # <<>> => tier = "remote"
    /\ tier = "session" =>
          HasTable(start.session) /\ ~snapshot_read /\ net_requests = <<>>
    /\ tier = "disk" =>
          /\ ~HasTable(start.session) /\ HasRows(start.snapshot)
          /\ snapshot_read /\ net_requests = <<>>
    /\ tier = "remote" =>
          /\ ~HasTable(start.session) /\ ~HasRows(start.snapshot)
          /\ snapshot_read

\* C1 witness: a call that found a session table and a snapshot on disk was
\* answered by the session state
C1_Witness ==
    /\ pc = "returned" /\ tier = "session"
    /\ HasTable(start.session) /\ HasRows(start.snapshot)

\* C2: a page that is answered rate-limited a finite number of times is
\* retried until it is answered otherwise: the loop never goes past a page it
\* has no answer for, a run that ends on a page ends on its answer (or on a
\* hard failure), and the loop does not stay on a page for ever.
C2_RetryTerminates ==
    /\ [](\A n \in Pages :
            (pc = "collect" /\ page > n) =>
                (accepted[n] # None /\ ~accepted[n][1].rate_limited))
    /\ []((pc = "returned" /\ tier = "remote") =>
            (failed \/ (accepted[page] # None /\ ~accepted[page][1].rate_limited)))
    /\ \A n \in Pages : []<>~(pc = "collect" /\ page = n)

\* C2 witness: page 2 was requested twice in one call (the first answer was
\* rate-limited) and then answered with records
C2_Witness ==
    /\ \E i, j \in DOMAIN net_requests :
          i < j /\ net_requests[i] = 2 /\ net_requests[j] = 2
    /\ accepted[2] # None
    /\ accepted[2][1].results # <<>>

\* C3: after a get_data call that returned a table the session state holds a
\* table, and every later call of the session, until a refresh, is answered
\* from the session state: it returns the table, reads no snapshot and issues
\* no fetch.
C3_LaterCallsFromSession ==
    /\ warm => HasTable(tmdb_prepared_data)
    /\ (warm_start /\ pc = "returned") =>
          /\ tier = "session" /\ outcome = "table"
          /\ ~snapshot_read /\ net_requests = <<>>

\* C4: the get_data call after a refresh that removed the snapshot takes the
\* Miss path: it is answered neither by the session state nor by the
\* snapshot, its first network request is for page 1, and every answer it goes
\* on with was requested over the network in this call.
C4_RefreshForcesMiss ==
    (after_refresh = "deleted" /\ pc \in {"collect", "returned"}) =>
        /\ tier = "remote"
        /\ net_requests # <<>> => net_requests[1] = 1
        /\ \A p \in Pages : accepted[p] # None => p \in Range(net_requests)
        /\ pc = "returned" => net_requests # <<>>

\* C4 witness: the call after a refresh fetched a table from the remote
C4_Witness ==
    /\ after_refresh = "deleted" /\ pc = "returned"
    /\ outcome = "table" /\ net_requests # <<>>

\* C5: when the collection after a refresh fails, the session table and the
\* snapshot that were valid before the refresh are still there.
C5_FailedRefreshKeepsData ==
    (/\ pc = "returned" /\ after_refresh # "no" /\ outcome = "absent"
     /\ pre_refresh # None
     /\ HasTable(pre_refresh[1].session) /\ HasRows(pre_refresh[1].snapshot)) =>
        /\ tmdb_prepared_data = pre_refresh[1].session
        /\ csv_file = pre_refresh[1].snapshot

\* C6: a hard failure of a page fetch ends the run: the failed request is the
\* last one of the call and no page after it was requested, get_data returns
\* absent, and the session state and the snapshot are as the call found them.
C6_HardFailureAborts ==
    failed =>
        /\ pc = "returned" /\ outcome = "absent"
        /\ net_requests # <<>>
        /\ net_requests[Len(net_requests)] = page
        /\ \A i \in DOMAIN net_requests : net_requests[i] <= page
        /\ \A p \in Pages : p >= page => accepted[p] = None
        /\ wrote = [session |-> FALSE, snapshot |-> FALSE]
        /\ tmdb_prepared_data = start.session
        /\ csv_file = start.snapshot

\* C6 witness: the request of page 2 failed after page 1 was collected
C6_Witness == failed /\ page = 2 /\ all_movies # <<>>

\* C7: a run whose first page has no records collects nothing and fails:
\* get_data returns absent, the session state stays unset and no snapshot is
\* written.
C7_EmptyRunFails ==
    (/\ pc = "returned" /\ tier = "remote"
     /\ accepted[1] # None /\ accepted[1][1].results = <<>>) =>
        /\ outcome = "absent" /\ all_movies = <<>>
        /\ tmdb_prepared_data = None
        /\ csv_file = start.snapshot
        /\ wrote = [session |-> FALSE, snapshot |-> FALSE]

\* C7 witness: the call ended on an empty first page
C7_Witness ==
    /\ pc = "returned" /\ tier = "remote"
    /\ accepted[1] # None /\ accepted[1][1].results = <<>>

\* C8: prepare_df applied to its own result succeeds and gives the same table.
C8_PrepareIdempotent ==
    prep_twice # None =>
        (~prep_twice[1].raised /\ prep_twice[1].value = prep_once[1].value)

\* C9: total_pages_known is min(total_pages reported by page 1, max_pages);
\* no page above max_pages is requested and, once it is known, no page above
\* total_pages_known; with page 1 full and total_pages = 1 the run returns the
\* records of page 1 and requests no other page.
C9_TotalPagesBound ==
    /\ \A i \in DOMAIN net_requests : net_requests[i] <= DEFAULT_FETCH_PAGES
    /\ pc = "collect" => page <= DEFAULT_FETCH_PAGES
    /\ total_pages_known # None =>
          /\ accepted[1] # None
          /\ total_pages_known[1] =
                Min(IF accepted[1][1].total_pages = None
                    THEN DEFAULT_FETCH_PAGES
                    ELSE accepted[1][1].total_pages[1], DEFAULT_FETCH_PAGES)
          /\ pc = "collect" => page <= total_pages_known[1]
          /\ \A p \in Pages :
                (p > 1 /\ p > total_pages_known[1]) =>
                    (accepted[p] = None /\ p \notin Range(net_requests))
    /\ (pc = "returned" /\ accepted[1] = Some(Body(FullPage(1), Some(1)))) =>
          /\ all_movies = FullPage(1)
          /\ Range(net_requests) \subseteq {1}
          /\ \A p \in Pages : p > 1 => accepted[p] = None

\* C9 witness: page 1 came full with total_pages = 1 and the run returned
C9_Witness ==
    /\ pc = "returned" /\ outcome = "table"
    /\ accepted[1] = Some(Body(FullPage(1), Some(1)))
    /\ DEFAULT_FETCH_PAGES >= 3

\* the records of the answers to pages 1..n, in page order
RECURSIVE AcceptedUpTo(_)
AcceptedUpTo(n) ==
    IF n = 0 THEN <<>> ELSE AcceptedUpTo(n - 1) \o accepted[n][1].results

\* C10: when page k is the first page without records the run stops there:
\* the collected records are those of pages 1..k-1 and no page after k is
\* requested.
C10_StopAtEmptyPage ==
    \A k \in Pages :
        (accepted[k] # None /\ accepted[k][1].results = <<>>) =>
            /\ pc = "returned" /\ page = k
            /\ \A j \in 1..(k - 1) :
                  accepted[j] # None /\ accepted[j][1].results # <<>>
            /\ all_movies = AcceptedUpTo(k - 1)
            /\ \A p \in Pages :
                  p > k => (accepted[p] = None /\ p \notin Range(net_requests))

\* C10 witness: page 2 came empty while total_pages_known and max_pages are 3
\* or more, after page 1 was collected
C10_Witness ==
    /\ accepted[2] # None /\ accepted[2][1].results = <<>>
    /\ total_pages_known # None /\ total_pages_known[1] > 2
    /\ all_movies = FullPage(1)

\* the answers of fetch_tmdb_page the collector went on with, in order
PagesAnswered ==
    SelectSeq(col_answers,
              LAMBDA a : ~a.answer.raised /\ ~a.answer.value.rate_limited)

\* the records of a sequence of answers, one after the other
RECURSIVE ResultsOf(_)
ResultsOf(answers) ==
    IF answers = <<>> THEN <<>>
    ELSE answers[1].answer.value.results \o ResultsOf(Tail(answers))

\* the ids of the rows of a table, in row order
Ids(df) == [i \in 1..Len(df) |-> df[i].id]

\* C11: the records a collection run returns are those of pages 1..L in
\* ascending page number, each page once and in its own order, whatever
\* rate-limited answers came in between, and prepare_df keeps the row order.
C11_PageOrderKept ==
    /\ \A i \in DOMAIN PagesAnswered : PagesAnswered[i].page = i
    /\ col_movies = ResultsOf(PagesAnswered)
    /\ \A i, j \in DOMAIN col_movies :
          (i < j) => \/ col_movies[i].id[1] < col_movies[j].id[1]
                     \/ /\ col_movies[i].id[1] = col_movies[j].id[1]
                        /\ col_movies[i].id[2] < col_movies[j].id[2]
    /\ (col_result # None /\ ~col_result[1].raised) =>
          /\ col_page = Len(PagesAnswered)
          /\ col_result[1].value = ResultsOf(PagesAnswered)
    /\ col_prepared # None =>
          /\ ~col_prepared[1].raised
          /\ Ids(col_prepared[1].value) = Ids(col_result[1].value)

\* C11 witness: two pages were returned and prepared, with rate-limited
\* answers to page 2 in between
C11_Witness ==
    /\ col_prepared # None
    /\ Len(col_result[1].value) = 2 * PER_PAGE
    /\ \E i \in DOMAIN col_sleeps : col_sleeps[i].page = 2

\* the sleeps of page p, and the rate-limited answers to page p, in order
SleepsOf(p) == SelectSeq(col_sleeps, LAMBDA x : x.page = p)
RateLimitedOf(p) ==
    SelectSeq(col_answers,
              LAMBDA a : a.page = p /\ ~a.answer.raised
                            /\ a.answer.value.rate_limited)

RECURSIVE Pow2(_)
Pow2(n) == IF n = 0 THEN 1 ELSE 2 * Pow2(n - 1)

\* C12: for every page the collector sleeps once per rate-limited answer, the
\* i-th sleep of the page lasting min(2^(i-1), 10) seconds; after an answer
\* that is not rate-limited the backoff is 1 again; two rate-limited answers
\* and then a success on page 1 give sleeps of 1 s and 2 s.
C12_BackoffSleeps ==
    /\ \A p \in Pages :
          /\ Len(SleepsOf(p)) = Len(RateLimitedOf(p))
          /\ \A i \in DOMAIN SleepsOf(p) :
                /\ SleepsOf(p)[i].secs = Min(Pow2(i - 1), 10)
                /\ SleepsOf(p)[i].secs <= 10
    /\ (col_answers # <<>> /\ ~col_answers[Len(col_answers)].answer.raised
          /\ ~col_answers[Len(col_answers)].answer.value.rate_limited) =>
              col_backoff = 1
    /\ (/\ Len(col_answers) >= 3
        /\ Len(RateLimitedOf(1)) = 2
        /\ col_answers[3].page = 1 /\ ~col_answers[3].answer.raised) =>
              /\ Len(col_sleeps) >= 2
              /\ col_sleeps[1] = [page |-> 1, secs |-> 1]
              /\ col_sleeps[2] = [page |-> 1, secs |-> 2]
              /\ \A i \in DOMAIN col_sleeps : i > 2 => col_sleeps[i].page > 1

\* C12 witness: page 1 was slept on five times, the fifth time for 10 s, and a
\* later page is slept on for 1 s
C12_Witness ==
    /\ Len(SleepsOf(1)) = 5
    /\ SleepsOf(1)[5].secs = 10
    /\ Len(SleepsOf(2)) = 1
    /\ SleepsOf(2)[1].secs = 1

\* C13: a call of fetch_tmdb_page for a page whose answer is in the cache (an
\* earlier call with the same parameters returned it, its ttl has not run out
\* and the cache was not cleared) issues no network request and gives that
\* answer; and the answer a call gets over the network is in the cache after it.
C13_SecondCallFromCache ==
    [][/\ (pc = "collect" /\ page_cache[page] # None) =>
             /\ net_requests' = net_requests
             /\ accepted'[page] # accepted[page] =>
                   accepted'[page] = page_cache[page]
             /\ page_cache[page][1].rate_limited =>
                   (accepted' = accepted /\ pc' = "collect" /\ page' = page)
             /\ (~page_cache[page][1].rate_limited /\ page_cache' = page_cache)
                   => accepted'[page] = page_cache[page]
       /\ (Len(net_requests') = Len(net_requests) + 1 /\ ~failed') =>
             /\ page_cache'[page] # None
             /\ IF page_cache'[page][1].rate_limited
                THEN accepted'[page] = None /\ pc' = "collect"
                ELSE accepted'[page] = page_cache'[page]
      ]_vars

\* C13 witness: a call went on with the cached answer to page 1 and issued no
\* request for it
C13_Witness ==
    /\ tier = "remote"
    /\ accepted[1] # None
    /\ page_cache[1] = accepted[1]
    /\ 1 \notin Range(net_requests)
    /\ resume_from = None

\* C14: a run that follows a run which failed hard on page K, with no ttl run
\* out and no refresh in between, requests none of the pages 1..K-1 over the
\* network: it goes on with their cached answers and its first request is for
\* page K.
C14_Resumable ==
    (resume_from # None /\ tier = "remote" /\ pc \in {"collect", "returned"}) =>
        /\ \A i \in DOMAIN net_requests : net_requests[i] >= resume_from[1]
        /\ net_requests # <<>> => net_requests[1] = resume_from[1]
        /\ \A p \in 1..(resume_from[1] - 1) :
              accepted[p] # None => accepted[p] = page_cache[p]
        /\ pc = "returned" => (page >= resume_from[1] /\ net_requests # <<>>)

\* C14 witness: the run before failed on page 2; this one took page 1 from
\* the cache, requested page 2 first and returned a table
C14_Witness ==
    /\ resume_from = Some(2)
    /\ pc = "returned" /\ outcome = "table"
    /\ net_requests # <<>> /\ net_requests[1] = 2
    /\ 1 \notin Range(net_requests)

\* C15: fetch_tmdb_page returns the rate-limited value, without raising, for
\* status 429, and raises for a network error or timeout and for every other
\* status outside 2xx.
C15_ResponseClasses ==
    fetch_out # None =>
        LET status == fetch_resp[1].resp.status
            out == fetch_out[1]
        IN  /\ status = 429 => (~out.raised /\ out.value = RATE_LIMITED)
            /\ (status # 429 /\ (status < 200 \/ status > 299)) => out.raised
            /\ (~out.raised /\ out.value = RATE_LIMITED) => status = 429

\* C16: when save_data_to_csv fails after a collection that gathered records,
\* get_data still stores the prepared table in the session state and returns
\* it, the snapshot stays as it was, and the next call of the session is a
\* SessionHit: it returns the table with no snapshot read and no fetch.
C16_SaveFailureNotFatal ==
    /\ (/\ pc = "returned" /\ tier = "remote" /\ ~failed
        /\ all_movies # <<>> /\ ~wrote.snapshot) =>
            /\ outcome = "table"
            /\ wrote.session
            /\ HasTable(tmdb_prepared_data)
            /\ Ids(tmdb_prepared_data[1]) = Ids(all_movies)
            /\ csv_file = start.snapshot
    /\ (warm_start /\ ~HasRows(start.snapshot) /\ pc = "returned") =>
            /\ tier = "session" /\ outcome = "table"
            /\ ~snapshot_read /\ net_requests = <<>>

\* C17: when there is no snapshot file, and when the file cannot be read,
\* load_data_from_csv returns absent without raising and get_data goes on to
\* the remote fetch; deleting a snapshot that is not there is no error and
\* leaves no file.
C17_LoadAbsent ==
    /\ []((/\ pc \in {"collect", "returned"}
           /\ ~HasTable(start.session)
           /\ start.snapshot \in {None, Some(UnreadableFile)}) =>
              (tier = "remote" /\ snapshot_read /\ outcome # "raised"))
    /\ [][(pc = "sidebar" /\ csv_file = None) =>
             (pc' = "rerun" /\ csv_file' = None /\ after_refresh' = "deleted")]_vars

\* C17 witness: a call that found an unreadable file fetched from the remote
\* and returned a table
C17_Witness ==
    /\ start.snapshot = Some(UnreadableFile)
    /\ tier = "remote" /\ pc = "returned" /\ outcome = "table"

\* the ids of a table are the positions of its rows in the input
IdsIncrease(t) == \A i, j \in DOMAIN t : i < j => t[i].id < t[j].id

\* the predicates of the filter spec, one row at a time: a null year passes
\* the year range exactly when missing dates are included
adult_inclusion(r, f) == f.adult \/ ~r.adult
genre_membership(r, f) ==
    f.genre = "All" \/ (r.genres.kind = "list" /\ f.genre \in Range(r.genres.items))
language_equality(r, f) ==
    f.original_language = "All" \/ r.original_language = f.original_language
thresholds(r, f) ==
    /\ ~r.vote_average.nan /\ r.vote_average.v >= f.min_rating
    /\ ~r.popularity.nan /\ r.popularity.v <= f.max_popularity
    /\ ~r.vote_count.nan /\ r.vote_count.v >= f.min_vote_count
year_range(r, f) ==
    IF r.year.nan
    THEN f.include_missing_dates
    ELSE /\ f.min_year # None => r.year.v >= f.min_year[1]
         /\ f.max_year # None => r.year.v <= f.max_year[1]
missing_date_inclusion(r, f) ==
    f.include_missing_dates \/ r.release_date.kind = "ts"
Satisfies(r, f) ==
    /\ adult_inclusion(r, f) /\ genre_membership(r, f)
    /\ language_equality(r, f) /\ thresholds(r, f)
    /\ year_range(r, f) /\ missing_date_inclusion(r, f)

\* every predicate but the adult exclusion is disabled
AllDisabled(f) ==
    /\ ~f.adult /\ f.genre = "All" /\ f.original_language = "All"
    /\ f.min_rating = 0 /\ f.max_popularity = 100 /\ f.min_vote_count = 0
    /\ f.min_year = None /\ f.max_year = None /\ f.include_missing_dates

\* C18: filter_df returns exactly the input rows that satisfy every active
\* predicate of the filter spec: each returned row is an input row that
\* satisfies them all, no input row that satisfies them all is dropped, and
\* with every predicate disabled the result is the input minus the adult rows.
C18_ExactlySatisfying ==
    flt_out # None =>
        LET df == flt_args[1].df
            f == flt_args[1].filters
        IN  /\ \A r \in Range(flt_out[1]) : r \in Range(df) /\ Satisfies(r, f)
            /\ \A r \in Range(df) : Satisfies(r, f) => r \in Range(flt_out[1])
            /\ AllDisabled(f) =>
                   flt_out[1] = SelectSeq(df, LAMBDA r : ~r.adult)

\* C19: with include_missing_dates true a row with a null release date that
\* satisfies the other predicates is retained even when a year range is
\* set; with include_missing_dates false no row with a null year is returned.
C19_MissingDates ==
    flt_out # None =>
        LET df == flt_args[1].df
            f == flt_args[1].filters
        IN  /\ f.include_missing_dates =>
                 \A r \in Range(df) :
                    (/\ r.release_date = NaT
                     /\ adult_inclusion(r, f) /\ genre_membership(r, f)
                     /\ language_equality(r, f) /\ thresholds(r, f))
                       => r \in Range(flt_out[1])
            /\ ~f.include_missing_dates =>
                 \A r \in Range(flt_out[1]) : ~r.year.nan

\* C20: filter_df leaves its input table and the filter dict as they were,
\* and the rows it returns are in the order they have in the input.
C20_InputKeptOrderKept ==
    flt_out # None =>
        /\ flt_df = flt_args[1].df
        /\ flt_filters = flt_args[1].filters
        /\ IdsIncrease(flt_out[1])
        /\ \A i \in DOMAIN flt_out[1] :
              flt_out[1][i] = flt_df[flt_out[1][i].id]

\* C20 witness: two rows were returned out of a table of two
C20_Witness ==
    /\ flt_out # None
    /\ Len(flt_out[1]) = 2
    /\ flt_out[1][1] # [flt_out[1][2] EXCEPT !.id = 1]

RegeneratedRow(gmap, drop, stored) ==
    LET from_ids == map_genre_ids(gmap, stored.genre_ids)
    IN  [gems_score |-> IF "gems_score" \in drop
                        THEN gems_score(stored) ELSE stored.gems_score,
         year |-> IF "year" \in drop
                  THEN dt_year(stored.release_date) ELSE stored.year,
         genres |-> IF "genres" \in drop THEN from_ids ELSE stored.genres,
         genres_str |-> IF "genres_str" \in drop
                        THEN genres_str(from_ids) ELSE stored.genres_str]
        @@ stored

\* C22: loading a snapshot that lacks any of gems_score, year, genres and
\* genres_str succeeds, each missing column is regenerated from the stored
\* fields, and every derived column the file has is kept as stored.
C22_MissingColumnsRegenerated ==
    (snap_loaded # None /\ snap_bad = None) =>
        /\ snap_loaded[1].value # None
        /\ snap_loaded[1].value[1] =
              [i \in 1..Len(snap_df) |->
                  RegeneratedRow(snap_gmap, snap_drop, snap_df[i])]

\* C23: a row whose original_language code is not in the language table
\* keeps its code and prepare_df raises nothing; a code that is in the table
\* becomes the English name.
C23_UnknownLanguageKept ==
    prep_once # None =>
        /\ ~prep_once[1].raised
        /\ \A i \in DOMAIN prep_input :
              prep_once[1].value[i].original_language =
                 IF prep_input[i].original_language \in DOMAIN lang_map
                 THEN lang_map[prep_input[i].original_language]
                 ELSE prep_input[i].original_language

\* genres / genres_str of row i of the prepared table
prepared_is_empty(i) == prep_once[1].value[i].genres.items = <<>>
prepared_is_unknown(i) == prep_once[1].value[i].genres_str = <<"Unknown">>

\* the genre map prepare_df worked with
GenreMapUsed == fetch_genre_map(prep_genre_resp).value

\* genres of a prepared row against genre_ids of the raw row: the same
\* length and order, every id replaced by its name or by "Unknown", and no
\* genres for a genre_ids that is not a list; genres_str joins genres
GenresFollowIds(raw, prepared) ==
    LET ids == raw.genre_ids
        g == prepared.genres
    IN  /\ g.kind = "list"
        /\ ids.kind # "list" => g.items = <<>>
        /\ ids.kind = "list" =>
              /\ Len(g.items) = Len(ids.items)
              /\ \A k \in DOMAIN ids.items :
                    g.items[k] = IF ids.items[k] \in DOMAIN GenreMapUsed
                                 THEN GenreMapUsed[ids.items[k]]
                                 ELSE "Unknown"
        /\ g.items # <<>> => prepared.genres_str = g.items

\* C24 as stated: for every row of prepare_df, genres follows genre_ids id
\* by id, genres_str is the joined genres, and genres_str is "Unknown"
\* exactly when genres is empty.
C24_GenresStrUnknownIffEmpty ==
    (prep_once # None /\ ~prep_once[1].raised) =>
        \A i \in DOMAIN prep_input :
            /\ GenresFollowIds(prep_input[i], prep_once[1].value[i])
            /\ prepared_is_unknown(i) <=> prepared_is_empty(i)

\* C24 amended: for every row of prepare_df, genres follows genre_ids id by
\* id, genres_str is the joined genres, and genres_str is "Unknown" when
\* genres is empty; it is "Unknown" as well when genres is the one name
\* "Unknown", and in no other case.
C24_GenresResolved ==
    (prep_once # None /\ ~prep_once[1].raised) =>
        \A i \in DOMAIN prep_input :
            /\ GenresFollowIds(prep_input[i], prep_once[1].value[i])
            /\ prepared_is_empty(i) => prepared_is_unknown(i)
            /\ prepared_is_unknown(i) =>
                  prepared_is_empty(i)
                  \/ prep_once[1].value[i].genres.items = <<"Unknown">>

\* C24 witness: a row with one genre id the map does not know has the
\* genres ["Unknown"] and the genres_str "Unknown"
C24_Witness ==
    /\ prep_once # None /\ ~prep_once[1].raised
    /\ prep_input[1].genre_ids = List(<<12>>)
    /\ prep_once[1].value[1].genres = List(<<"Unknown">>)
    /\ prep_once[1].value[1].genres_str = <<"Unknown">>

\* C25: a failure of the genre lookup or of the language lookup does not
\* fail the caller of prepare_df: after a failed genre lookup every genre id
\* is resolved to "Unknown", after a failed language lookup the language
\* codes are left as they are.
C25_LookupFailureDegrades ==
    (/\ prep_once # None
     /\ prep_genre_resp # LookupOk \/ prep_lang_resp # LookupOk
     /\ prep_lang_resp = LookupOk =>
           \A i \in DOMAIN prep_input :
               prep_input[i].original_language \in DOMAIN lang_map) =>
        /\ ~prep_once[1].raised
        /\ prep_genre_resp # LookupOk =>
              \A i \in DOMAIN prep_input :
                 \A k \in DOMAIN prep_once[1].value[i].genres.items :
                    prep_once[1].value[i].genres.items[k] = "Unknown"
        /\ prep_lang_resp # LookupOk =>
              \A i \in DOMAIN prep_input :
                 prep_once[1].value[i].original_language =
                    prep_input[i].original_language

\* a fraction is a finite number / is the number n
IsFinite(q) == q.den # 0
FractionIs(q, n) == q.den # 0 /\ q.num = n * q.den

\* C26: for every row with rating, vote_count and popularity >= 0 the
\* gems_score is rating * log10(vote_count + 1) / (popularity + 1), finite
\* and >= 0; it is 0 when one of the three is null; rating 7.5, vote_count
\* 99 and popularity 4.0 give 3.0.
C26_GemsScore ==
    (prep_once # None /\ ~prep_once[1].raised) =>
        \A i \in DOMAIN prep_input :
            LET r == prep_input[i]
                q == prep_once[1].value[i].gems_score
                null == r.vote_average.nan \/ r.vote_count.nan \/ r.popularity.nan
            IN  /\ IsFinite(q)
                /\ q.num * q.den >= 0
                /\ null => FractionIs(q, 0)
                /\ (~null /\ r.vote_average.v >= 0 /\ r.vote_count.v >= 0
                     /\ r.popularity.v >= 0) =>
                       \* q = (rating / 10) * log10(votes + 1) / (popularity + 1)
                       q.num * 10 * (r.popularity.v + 1) =
                          r.vote_average.v * log10(r.vote_count.v + 1) * q.den
                /\ (r.vote_average = Num(75) /\ r.vote_count = Num(99)
                     /\ r.popularity = Num(4)) => FractionIs(q, 3)

\* C26 witness: a table was prepared that holds the row with rating 7.5, 99
\* votes and popularity 4.0 and a row with a null among the three
C26_Witness ==
    /\ prep_once # None /\ ~prep_once[1].raised
    /\ Len(prep_input) = 2
    /\ prep_input[1].vote_count = NaN
    /\ prep_input[2].vote_average = Num(75) /\ prep_input[2].vote_count = Num(99)
    /\ prep_input[2].popularity = Num(4)
    /\ prep_once[1].value[2].gems_score = Fraction(150, 50)

\* what load_data_from_csv gives for the file as it is now
SnapshotTable == load_data_from_csv(genre_map, csv_file)

\* C27: in every reachable state where the session holds a table and a
\* readable snapshot with at least one row exists, the two hold the same
\* records in the same order.
C27_SessionMatchesSnapshot ==
    (HasTable(tmdb_prepared_data) /\ HasTable(SnapshotTable)) =>
        tmdb_prepared_data[1] = SnapshotTable[1]

\* C27 witness: after a refresh a collection of more than one page was
\* stored in the session and saved, and the file is readable
C27_Witness ==
    /\ after_refresh = "deleted"
    /\ tier = "remote" /\ outcome = "table"
    /\ wrote = [session |-> TRUE, snapshot |-> TRUE]
    /\ HasTable(tmdb_prepared_data) /\ HasTable(SnapshotTable)
    /\ Len(tmdb_prepared_data[1]) > PER_PAGE

\* get_data is in the progress branch: show_progress is true, max_pages is
\* config.DEFAULT_FETCH_PAGES
InProgressBranch == tmdb_show_progress = Some(TRUE)

inline_start ==
    [pc |-> "loop", page |-> 1, backoff |-> BACKOFF_START, known |-> None,
     movies |-> <<>>, requests |-> <<>>, sleeps |-> <<>>, result |-> "none"]

\* the end of the loop: "if not all_movies: st.error(...); return None",
\* else on to prepare_df
inline_end(movies) == IF movies = <<>> THEN "absent" ELSE "table"

\* (mutant) no "backoff = 1.0" after an answer that is not rate limited
inline_step_KeepsBackoff(st, fetched) ==
    IF st.pc = "done" THEN st
    ELSE IF fetched.raised
    THEN [st EXCEPT !.requests = Append(@, st.page), !.pc = "done",
                    !.result = "raised"]
    ELSE IF fetched.value.rate_limited
    THEN [st EXCEPT !.requests = Append(@, st.page),
                    !.sleeps = Append(@, [page |-> st.page, secs |-> st.backoff]),
                    !.backoff = Min(st.backoff * 2, BACKOFF_MAX)]
    ELSE LET data == fetched.value
             known == IF st.known = None
                      THEN Min(get_total_pages(data, DEFAULT_FETCH_PAGES),
                               DEFAULT_FETCH_PAGES)
                      ELSE st.known[1]
             movies == data.results
         IN  IF movies = <<>>
             THEN [st EXCEPT !.requests = Append(@, st.page),
                             !.known = Some(known), !.pc = "done",
                             !.result = inline_end(st.movies)]
             ELSE IF st.page >= known \/ st.page = DEFAULT_FETCH_PAGES
             THEN [st EXCEPT !.requests = Append(@, st.page),
                             !.known = Some(known),
                             !.movies = @ \o movies, !.pc = "done",
                             !.result = inline_end(st.movies \o movies)]
             ELSE [st EXCEPT !.requests = Append(@, st.page),
                             !.known = Some(known),
                             !.movies = @ \o movies, !.page = @ + 1]

\* one turn of "while True": data = fetch_tmdb_page(page) and what follows,
\* up to the next call of fetch_tmdb_page or the end of the loop; an
\* exception leaves the loop
inline_step(st, fetched) ==
    IF st.pc = "done" THEN st
    ELSE IF fetched.raised
    THEN [st EXCEPT !.requests = Append(@, st.page), !.pc = "done",
                    !.result = "raised"]
    ELSE IF fetched.value.rate_limited
    THEN [st EXCEPT !.requests = Append(@, st.page),
                    !.sleeps = Append(@, [page |-> st.page, secs |-> st.backoff]),
                    !.backoff = Min(st.backoff * 2, BACKOFF_MAX)]
    ELSE LET data == fetched.value
             known == IF st.known = None
                      THEN Min(get_total_pages(data, DEFAULT_FETCH_PAGES),
                               DEFAULT_FETCH_PAGES)
                      ELSE st.known[1]
             movies == data.results
         IN  IF movies = <<>>
             THEN [st EXCEPT !.requests = Append(@, st.page),
                             !.backoff = BACKOFF_START,
                             !.known = Some(known), !.pc = "done",
                             !.result = inline_end(st.movies)]
             ELSE IF st.page >= known \/ st.page = DEFAULT_FETCH_PAGES
             THEN [st EXCEPT !.requests = Append(@, st.page),
                             !.backoff = BACKOFF_START,
                             !.known = Some(known),
                             !.movies = @ \o movies, !.pc = "done",
                             !.result = inline_end(st.movies \o movies)]
             ELSE [st EXCEPT !.requests = Append(@, st.page),
                             !.backoff = BACKOFF_START,
                             !.known = Some(known),
                             !.movies = @ \o movies, !.page = @ + 1]

\* the loop run on a sequence of answers
RECURSIVE inline_loop(_)
inline_loop(answers) ==
    IF answers = <<>> THEN inline_start
    ELSE inline_step(inline_loop(SubSeq(answers, 1, Len(answers) - 1)),
                     answers[Len(answers)])

\* how _fetch_tmdb_pages_cached ended, in the words of the inline loop; zero
\* records are an exception there and a return of None here
cached_result ==
    IF col_result = None THEN "none"
    ELSE IF ~col_result[1].raised THEN "table"
    ELSE IF col_answers[Len(col_answers)].answer.raised THEN "raised"
    ELSE "absent"

\* C29: given the same page budget and the same sequence of fetch answers the
\* inline loop of get_data and _fetch_tmdb_pages_cached request the same
\* pages in the same order, sleep the same intervals and collect the same
\* records; they end together, and differ only in how zero records are
\* reported.
C29_LoopsEquivalent ==
    LET inl == inline_loop([i \in DOMAIN col_answers |-> col_answers[i].answer])
    IN  /\ inl.requests = [i \in DOMAIN col_answers |-> col_answers[i].page]
        /\ inl.sleeps = col_sleeps
        /\ inl.movies = col_movies
        /\ (inl.pc = "done") <=> (col_pc = "done")
        /\ inl.pc = "loop" => (inl.page = col_page /\ inl.backoff = col_backoff)
        /\ inl.result = cached_result
        /\ (col_pc = "done" /\ col_result[1].raised) =>
              inl.result \in {"raised", "absent"}
        /\ (col_pc = "done" /\ ~col_result[1].raised) =>
              col_result[1].value = inl.movies

\* C29 witness: both loops slept twice on page 1 and once on page 2, went
\* over all pages and returned the records
C29_Witness ==
    /\ col_pc = "done"
    /\ col_sleeps = <<[page |-> 1, secs |-> 1], [page |-> 1, secs |-> 2],
                      [page |-> 2, secs |-> 1]>>
    /\ Len(col_movies) = DEFAULT_FETCH_PAGES * PER_PAGE
    /\ inline_loop([i \in DOMAIN col_answers |-> col_answers[i].answer]).result
          = "table"

\* C30: a refresh deletes the data keys of the session and nothing else of
\* it: the GLOBAL_FILTERS store is the same after the refresh, and it stays
\* what it was, with every value set before, until the sidebar is drawn again.
C30_RefreshKeepsFilters ==
    /\ [][(pc = "sidebar" /\ pc' = "rerun") =>
             /\ GLOBAL_FILTERS' = GLOBAL_FILTERS
             /\ GLOBAL_FILTERS' # None
             /\ tmdb_prepared_data' = None
             /\ tmdb_show_progress' = None
             /\ csv_loaded_notified' = FALSE]_vars
    /\ [](after_refresh # "no" =>
             /\ pre_refresh # None
             /\ GLOBAL_FILTERS = pre_refresh[1].filters
             /\ GLOBAL_FILTERS # None)

\* C30 witness: a genre and a rating were set in the sidebar, the data was
\* refreshed, and the table is gone while the store holds both
C30_Witness ==
    /\ after_refresh = "deleted"
    /\ tmdb_prepared_data = None
    /\ GLOBAL_FILTERS # None
    /\ GLOBAL_FILTERS[1].genre = "Action"
    /\ GLOBAL_FILTERS[1].min_rating = 80
    /\ GLOBAL_FILTERS[1].min_year = Some(2020)

====
